---------------------------- MODULE Spec2Model ----------------------------
(***************************************************************************)
(* Model of src/ansi.rs of skim: the ANSI escape-sequence scanner          *)
(* (ANSIParser::parse_ansi, stateful across calls through last_attr) and   *)
(* the iterator over an AnsiString (AnsiStringIterator::next).             *)
(*                                                                         *)
(* A text is a sequence of UTF-8 bytes, each byte written as a short       *)
(* string: "ESC" is 0x1B, "C3" "A9" are the two bytes of one character,    *)
(* every other byte is the ASCII character it is named after.  Offsets     *)
(* into texts are 0-based byte offsets, as in the Rust code.               *)
(***************************************************************************)
EXTENDS Integers, Sequences, FiniteSets

(***************************************************************************)
(* Bounds of the model.                                                    *)
(***************************************************************************)
\* An input line is the concatenation of at most MaxPieces pieces.
MaxPieces == 3

\* An AnsiString built by a caller through its public fields has at most
\* MaxEntries entries, at offsets 0 .. MaxOffset.
MaxEntries == 3

MaxOffset == 2

(***************************************************************************)
(* Option<T>: None is the empty sequence, Some(x) the one-element sequence.*)
(***************************************************************************)
None == << >>

Some(x) == << x >>

IsSome(o) == o # None

Unwrap(o) == o[1]

(***************************************************************************)
(* Bytes and characters of a str.                                          *)
(***************************************************************************)
\* The byte at 0-based offset i of text, "EOF" past the end.
At(text, i) == IF i >= 0 /\ i < Len(text) THEN text[i + 1] ELSE "EOF"

\* The Rust slice &text[from..to] (0-based, to exclusive).
Slice(text, from, to) == SubSeq(text, from + 1, to)

IsDigit(b) == b \in {"0", "1", "2", "3", "4", "5", "6", "7", "8", "9"}

\* A UTF-8 continuation byte (0x80..0xBF) belongs to the character begun
\* by the lead byte before it.
IsContinuation(b) == b \in {"A9"}

\* str::chars(): the characters of a str, each the bytes that encode it.
RECURSIVE Chars(_)
Chars(s) ==
    IF s = << >> THEN << >>
    ELSE LET n == IF Len(s) >= 2 /\ IsContinuation(s[2]) THEN 2 ELSE 1
         IN  << SubSeq(s, 1, n) >> \o Chars(SubSeq(s, n + 1, Len(s)))

\* str::chars().count()
CharCount(s) == Len(Chars(s))

(***************************************************************************)
(* ANSI_RE, the regular expression                                         *)
(*   \x1B\[(?:([0-9]+;[0-9]+[Hf])|([0-9]+[ABCD])|(s|u|2J|K)                 *)
(*            |([0-9;]*m)|(=[0-9]+[hI]))                                    *)
(***************************************************************************)
\* Offset after the longest run of [0-9] that starts at offset i.
RECURSIVE DigitsEnd(_, _)
DigitsEnd(text, i) ==
    IF IsDigit(At(text, i)) THEN DigitsEnd(text, i + 1) ELSE i

\* Offset after the longest run of [0-9;] that starts at offset i.
RECURSIVE ParamsEnd(_, _)
ParamsEnd(text, i) ==
    IF IsDigit(At(text, i)) \/ At(text, i) = ";"
    THEN ParamsEnd(text, i + 1) ELSE i

\* The end offset of the match of ANSI_RE that starts at offset s, or -1
\* when the expression does not match there.  The alternatives are tried in
\* the order they are written; each repetition is followed by a byte outside
\* its class, so only the longest run can be followed by a match.
MatchAt(text, s) ==
    IF At(text, s) # "ESC" \/ At(text, s + 1) # "[" THEN -1
    ELSE LET p  == s + 2
             d1 == DigitsEnd(text, p)
             d2 == DigitsEnd(text, d1 + 1)
             q  == ParamsEnd(text, p)
             e  == DigitsEnd(text, p + 1)
         IN  IF d1 > p /\ At(text, d1) = ";" /\ d2 > d1 + 1
                /\ At(text, d2) \in {"H", "f"} THEN d2 + 1
             ELSE IF d1 > p /\ At(text, d1) \in {"A", "B", "C", "D"} THEN d1 + 1
             ELSE IF At(text, p) \in {"s", "u"} THEN p + 1
             ELSE IF At(text, p) = "2" /\ At(text, p + 1) = "J" THEN p + 2
             ELSE IF At(text, p) = "K" THEN p + 1
             ELSE IF At(text, q) = "m" THEN q + 1
             ELSE IF At(text, p) = "=" /\ e > p + 1
                     /\ At(text, e) \in {"h", "I"} THEN e + 1
             ELSE -1

\* Regex::find_at: the leftmost match that starts at or after offset from,
\* as Some(<<start, end>>), or None.
RECURSIVE FindFrom(_, _)
FindFrom(text, from) ==
    IF from >= Len(text) THEN None
    ELSE IF MatchAt(text, from) # -1 THEN Some(<< from, MatchAt(text, from) >>)
    ELSE FindFrom(text, from + 1)

\* Regex::find: the leftmost match of the text.
Find(text) == FindFrom(text, 0)

\* Regex::find_iter: the successive non-overlapping matches, left to right.
RECURSIVE FindIterFrom(_, _)
FindIterFrom(text, from) ==
    LET m == FindFrom(text, from)
    IN  IF m = None THEN << >>
        ELSE << Unwrap(m) >> \o FindIterFrom(text, Unwrap(m)[2])

FindIter(text) == FindIterFrom(text, 0)

(***************************************************************************)
(* The attribute registry of the curses module (not part of ansi.rs): equal*)
(* codes get equal tokens, different codes different tokens.  A token is   *)
(* modelled as a handle that names the code it was registered for.         *)
(***************************************************************************)
register_ansi(code) == << "attr", code >>

interpret_code_SgrOnly(code) ==
    IF code[Len(code)] = "m" THEN Some(register_ansi(code)) ELSE None

\* ANSIParser::interpret_code
interpret_code(code) ==
    IF code = << "ESC", "[", "K" >> \/ code = << "ESC", "[", "2", "J" >>
    THEN None
    ELSE Some(register_ansi(code))

(***************************************************************************)
(* ANSIParser::parse_ansi                                                  *)
(***************************************************************************)
LeadingColors_Always(text, last_attr_in) ==
    IF IsSome(last_attr_in) THEN << << 0, Unwrap(last_attr_in) >> >> ELSE << >>

\* Lines 120-127: the entry pushed before the scan.
LeadingColors(text, last_attr_in) ==
    LET mat == Find(text)
    IN  IF IsSome(mat) /\ Unwrap(mat)[1] = 0 THEN << >>
        ELSE IF IsSome(last_attr_in) THEN << << 0, Unwrap(last_attr_in) >> >>
        ELSE << >>

SpanCount_Bytes(span) == Len(span)

\* Line 134: the number added to num_chars for a literal span.
SpanCount(span) == CharCount(span)

PushColor_Front(colors, n, attr) ==
    IF IsSome(attr) THEN << << n, Unwrap(attr) >> >> \o colors ELSE colors

\* Lines 138-141: colors after the match's attr at offset n.
PushColor(colors, n, attr) ==
    IF IsSome(attr) THEN Append(colors, << n, Unwrap(attr) >>) ELSE colors

ScanMatch_KeepAttr(text, acc, mat) ==
    LET span == Slice(text, acc.last, mat[1])
        n    == acc.num_chars + SpanCount(span)
        attr == interpret_code(Slice(text, mat[1], mat[2]))
    IN  [strip_string |-> acc.strip_string \o span,
         num_chars    |-> n,
         last         |-> mat[2],
         colors       |-> PushColor(acc.colors, n, attr),
         last_attr    |-> IF IsSome(attr) THEN attr ELSE acc.last_attr]

ScanMatch_ResetCount(text, acc, mat) ==
    LET span == Slice(text, acc.last, mat[1])
        n    == SpanCount(span)
        attr == interpret_code(Slice(text, mat[1], mat[2]))
    IN  [strip_string |-> acc.strip_string \o span,
         num_chars    |-> n,
         last         |-> mat[2],
         colors       |-> PushColor(acc.colors, n, attr),
         last_attr    |-> attr]

ScanMatch_CountThroughEnd(text, acc, mat) ==
    LET span == Slice(text, acc.last, mat[1])
        n    == acc.num_chars + SpanCount(Slice(text, acc.last, mat[2]))
        attr == interpret_code(Slice(text, mat[1], mat[2]))
    IN  [strip_string |-> acc.strip_string \o span,
         num_chars    |-> n,
         last         |-> mat[2],
         colors       |-> PushColor(acc.colors, n, attr),
         last_attr    |-> attr]

\* Lines 132-142: the body of the loop for one match, on the locals
\* acc = [strip_string, colors, num_chars, last, last_attr].
ScanMatch(text, acc, mat) ==
    LET start == mat[1]
        end   == mat[2]
        span  == Slice(text, acc.last, start)
        n     == acc.num_chars + SpanCount(span)
        attr  == interpret_code(Slice(text, start, end))
    IN  [strip_string |-> acc.strip_string \o span,
         num_chars    |-> n,
         last         |-> end,
         colors       |-> PushColor(acc.colors, n, attr),
         last_attr    |-> attr]

\* Lines 131-143: the loop over find_iter(text).
RECURSIVE ScanLoop(_, _, _, _)
ScanLoop(text, mats, k, acc) ==
    IF k > Len(mats) THEN acc
    ELSE ScanLoop(text, mats, k + 1, ScanMatch(text, acc, mats[k]))

\* Lines 114-129: the locals before the loop; last_attr is the parser's.
ScanStart(text, last_attr_in) ==
    [strip_string |-> << >>,
     colors       |-> LeadingColors(text, last_attr_in),
     num_chars    |-> 0,
     last         |-> 0,
     last_attr    |-> last_attr_in]

parse_ansi_ForgetAttr(last_attr_in, text) ==
    LET acc == ScanLoop(text, FindIter(text), 1,
                        [ScanStart(text, last_attr_in) EXCEPT !.last_attr = None])
    IN  [stripped    |-> acc.strip_string \o Slice(text, acc.last, Len(text)),
         ansi_states |-> acc.colors,
         last_attr   |-> acc.last_attr]

parse_ansi_NoTail(last_attr_in, text) ==
    LET acc == ScanLoop(text, FindIter(text), 1, ScanStart(text, last_attr_in))
    IN  [stripped    |-> acc.strip_string,
         ansi_states |-> acc.colors,
         last_attr   |-> acc.last_attr]

\* The whole call: the AnsiString returned and the parser's last_attr after.
parse_ansi(last_attr_in, text) ==
    LET acc == ScanLoop(text, FindIter(text), 1, ScanStart(text, last_attr_in))
    IN  [stripped    |-> acc.strip_string \o Slice(text, acc.last, Len(text)),
         ansi_states |-> acc.colors,
         last_attr   |-> acc.last_attr]

(***************************************************************************)
(* Input lines.                                                            *)
(***************************************************************************)
Pieces ==
    { << "ESC", "[", "1", "m" >>,      \* SGR with a parameter
      << "ESC", "[", "s" >>,           \* save cursor
      << "ESC", "[", "K" >>,           \* clear line
      << "ESC", "[", "2", "J" >>,      \* clear screen
      << "ESC", "[" >>,                \* an unterminated sequence: literal
      << "h", "i" >>,                  \* two one-byte characters
      << "C3", "A9" >> }               \* a two-byte character

RECURSIVE LinesOf(_)
LinesOf(n) ==
    IF n = 0 THEN { << >> }
    ELSE LinesOf(n - 1) \cup { l \o p : l \in LinesOf(n - 1), p \in Pieces }

Lines == LinesOf(MaxPieces)

(***************************************************************************)
(* State.                                                                  *)
(***************************************************************************)
VARIABLES
    pc,              \* "ready": the parser holds no result; "parsed": an
                     \* AnsiString was returned; "iter": an iterator over it
                     \* is between two calls of next(); "loop": next() is at
                     \* the head of its while loop; "done": next() returned
                     \* None; "from_str": AnsiString::from_str returned
    last_attr,       \* ANSIParser.last_attr
    entry_attr,      \* last_attr as the latest parse_ansi call found it
    last_seq,        \* history: the last escape sequence this parser has
                     \* recognized, over all the lines it scanned
    entry_seq,       \* history: last_seq as the latest parse_ansi call found it
    text,            \* the argument of the latest parse_ansi call
    stripped,        \* AnsiString.stripped
    ansi_states,     \* AnsiString.ansi_states
    it_text,         \* AnsiStringIterator.it_text: characters taken so far
    pk_ansi_states,  \* AnsiStringIterator.pk_ansi_states: entries taken so far
    ch_idx,          \* next(): the index of the character taken
    as_range,        \* next(): Option<(start, end)>
    yielded,         \* the items next() has returned, in order
    steps,           \* history: the steps the current traversal has taken
    printing,        \* the traversal is the for loop of AnsiString::print
    win              \* the calls print has made on the Window, in order

vars == << pc, last_attr, entry_attr, last_seq, entry_seq, text, stripped, ansi_states,
           it_text, pk_ansi_states, ch_idx, as_range, yielded, steps,
           printing, win >>

parserVars == << last_attr, entry_attr, last_seq, entry_seq >>

stringVars == << text, stripped, ansi_states >>

iterVars == << it_text, pk_ansi_states, ch_idx, as_range, yielded, steps,
              printing, win >>

\* ANSIParser::default(), and no AnsiString yet.
Init ==
    /\ pc = "ready"
    /\ last_attr = None
    /\ entry_attr = None
    /\ last_seq = None
    /\ entry_seq = None
    /\ text = << >>
    /\ stripped = << >>
    /\ ansi_states = << >>
    /\ it_text = 0
    /\ pk_ansi_states = 0
    /\ ch_idx = 0
    /\ as_range = None
    /\ yielded = << >>
    /\ steps = 0
    /\ printing = FALSE
    /\ win = << >>

\* The code of the last match of a line, or what it was before when the
\* line has no match.
LastSeqAfter(seq, line) ==
    LET mats == FindIter(line)
    IN  IF mats = << >> THEN seq
        ELSE Some(Slice(line, mats[Len(mats)][1], mats[Len(mats)][2]))

\* A call of parser.parse_ansi(line).
ParseAnsi(line) ==
    /\ pc = "ready"
    /\ LET r == parse_ansi(last_attr, line)
       IN  /\ stripped' = r.stripped
           /\ ansi_states' = r.ansi_states
           /\ last_attr' = r.last_attr
    /\ entry_attr' = last_attr
    /\ last_seq' = LastSeqAfter(last_seq, line)
    /\ entry_seq' = last_seq
    /\ text' = line
    /\ pc' = "parsed"
    /\ UNCHANGED iterVars

default_last_attr_Shared == last_attr

\* Line 22: last_attr of the parser ANSIParser::default() returns.
default_last_attr == None

\* AnsiString::from_str(line): a parser of its own scans the line and is
\* dropped; the caller's parser is not involved.
FromStr(line) ==
    /\ pc = "ready"
    /\ LET r == parse_ansi(default_last_attr, line)
       IN  /\ stripped' = r.stripped
           /\ ansi_states' = r.ansi_states
    /\ entry_attr' = default_last_attr
    /\ text' = line
    /\ pc' = "from_str"
    /\ UNCHANGED << last_attr, last_seq, entry_seq, iterVars >>

\* AnsiString::has_attrs
has_attrs(states) == states # << >>

\* Line 59: the characters it_text walks, self.stripped.chars().
TextChars_Bytes(s) == [i \in 1 .. Len(s) |-> << s[i] >>]

TextChars(s) == Chars(s)

\* AnsiString::iter(): a fresh iterator over the current AnsiString.
Iter ==
    /\ pc \in {"parsed", "done"}
    /\ it_text' = 0
    /\ pk_ansi_states' = 0
    /\ ch_idx' = 0
    /\ as_range' = None
    /\ yielded' = << >>
    /\ steps' = 0
    /\ printing' = FALSE
    /\ win' = << >>
    /\ pc' = "iter"
    /\ UNCHANGED << parserVars, stringVars >>

\* AnsiString::print, line 48: the for loop starts a traversal of
\* self.iter(); the Window has not been called yet.
PrintBegin ==
    /\ pc \in {"parsed", "done"}
    /\ it_text' = 0
    /\ pk_ansi_states' = 0
    /\ ch_idx' = 0
    /\ as_range' = None
    /\ yielded' = << >>
    /\ steps' = 0
    /\ printing' = TRUE
    /\ win' = << >>
    /\ pc' = "iter"
    /\ UNCHANGED << parserVars, stringVars >>

\* Lines 49-51: curses.attr_on(*a) for each (_, a) of attrs, in order.
RECURSIVE AttrOnCalls(_)
AttrOnCalls(attrs) ==
    IF attrs = << >> THEN << >>
    ELSE << << "attr_on", attrs[1][2] >> >> \o AttrOnCalls(Tail(attrs))

PrintBody_CharFirst(item) ==
    << << "addch", item.ch >> >> \o AttrOnCalls(item.run)

\* Lines 49-52: the body of print's for loop for one item (c, attrs).
PrintBody(item) ==
    AttrOnCalls(item.run) \o << << "addch", item.ch >> >>

\* next(), lines 83-89: take the next character, or return None.
NextBegin ==
    /\ pc \in {"iter", "done"}
    /\ IF it_text < Len(TextChars(stripped))
       THEN /\ ch_idx' = it_text
            /\ it_text' = it_text + 1
            /\ as_range' = None
            /\ pc' = "loop"
       ELSE /\ pc' = "done"
            /\ UNCHANGED << ch_idx, it_text, as_range >>
    /\ steps' = IF pc = "iter" THEN steps + 1 ELSE steps
    /\ UNCHANGED << parserVars, stringVars, pk_ansi_states, yielded,
                    printing, win >>

Item_Exclusive(states, chars, idx, range) ==
    [ch  |-> chars[idx + 1],
     run |-> IF IsSome(range)
             THEN SubSeq(states, Unwrap(range)[1] + 1, Unwrap(range)[2])
             ELSE << >>]

\* Lines 104-108: the item next() returns for the character at ch_idx.
Item(states, chars, idx, range) ==
    [ch  |-> chars[idx + 1],
     run |-> IF IsSome(range)
             THEN SubSeq(states, Unwrap(range)[1] + 1, Unwrap(range)[2] + 1)
             ELSE << >>]

ExtendRange_NoGrow(range, states_idx) ==
    IF IsSome(range) THEN range ELSE Some(<< states_idx, states_idx >>)

\* Lines 94-97: as_range after a matching entry at index states_idx.
ExtendRange(range, states_idx) ==
    IF IsSome(range)
    THEN Some(<< Unwrap(range)[1], Unwrap(range)[2] + 1 >>)
    ELSE Some(<< states_idx, states_idx >>)

\* next(), lines 91-108: one evaluation of the while loop's head and body;
\* when the loop ends, next() returns its item, and in print the body of
\* the for loop runs on it before next() is called again.
LoopStep ==
    /\ pc = "loop"
    /\ IF pk_ansi_states < Len(ansi_states)
          /\ ch_idx >= ansi_states[pk_ansi_states + 1][1]
       THEN /\ pk_ansi_states' = pk_ansi_states + 1
            /\ as_range' = IF ch_idx = ansi_states[pk_ansi_states + 1][1]
                           THEN ExtendRange(as_range, pk_ansi_states)
                           ELSE as_range
            /\ UNCHANGED << pc, yielded, win >>
       ELSE /\ LET item == Item(ansi_states, TextChars(stripped), ch_idx, as_range)
               IN  /\ yielded' = Append(yielded, item)
                   /\ win' = IF printing THEN win \o PrintBody(item) ELSE win
            /\ pc' = "iter"
            /\ UNCHANGED << pk_ansi_states, as_range >>
    /\ steps' = steps + 1
    /\ UNCHANGED << parserVars, stringVars, it_text, ch_idx, printing >>

\* The caller lets go of the AnsiString and of any iterator over it; the
\* parser stays.
Release ==
    /\ pc \in {"parsed", "done", "from_str"}
    /\ pc' = "ready"
    /\ text' = << >>
    /\ stripped' = << >>
    /\ ansi_states' = << >>
    /\ entry_attr' = None
    /\ entry_seq' = None
    /\ it_text' = 0
    /\ pk_ansi_states' = 0
    /\ ch_idx' = 0
    /\ as_range' = None
    /\ yielded' = << >>
    /\ steps' = 0
    /\ printing' = FALSE
    /\ win' = << >>
    /\ UNCHANGED << last_attr, last_seq >>

Next ==
    \/ \E line \in Lines : ParseAnsi(line)
    \/ Iter
    \/ NextBegin
    \/ LoopStep
    \/ Release

Spec == Init /\ [][Next]_vars

\* The same program with its traversals driven by print.
NextPrint ==
    \/ \E line \in Lines : ParseAnsi(line)
    \/ PrintBegin
    \/ NextBegin
    \/ LoopStep
    \/ Release

SpecPrint == Init /\ [][NextPrint]_vars

\* A parser scanning lines, and from_str called in between.
NextFromStr ==
    \/ \E line \in Lines : ParseAnsi(line)
    \/ \E line \in Lines : FromStr(line)
    \/ Release

SpecFromStr == Init /\ [][NextFromStr]_vars

(***************************************************************************)
(* Lines with a sequence of each kind ANSI_RE recognizes.                  *)
(***************************************************************************)
KindPieces ==
    { << "ESC", "[", "1", ";", "1", "H" >>,  \* cursor position
      << "ESC", "[", "2", "A" >>,            \* cursor move
      << "ESC", "[", "u" >>,                 \* restore cursor
      << "ESC", "[", "K" >>,                 \* clear line
      << "ESC", "[", "2", "J" >>,            \* clear screen
      << "ESC", "[", "1", "m" >>,            \* SGR
      << "ESC", "[", "=", "1", "h" >>,       \* mode set
      << "h", "i" >> }

RECURSIVE KindLinesOf(_)
KindLinesOf(n) ==
    IF n = 0 THEN { << >> }
    ELSE KindLinesOf(n - 1)
         \cup { l \o p : l \in KindLinesOf(n - 1), p \in KindPieces }

KindLines == KindLinesOf(MaxPieces)

\* The parser scanning such lines, one after the other.
NextKinds ==
    \/ \E line \in KindLines : ParseAnsi(line)
    \/ Release

SpecKinds == Init /\ [][NextKinds]_vars

(***************************************************************************)
(* AnsiString's fields are public (lines 29-32): a caller can build one    *)
(* with any stripped text and any change list, and iterate over it.        *)
(***************************************************************************)
PublicTokens ==
    { register_ansi(<< "ESC", "[", "1", "m" >>),
      register_ansi(<< "ESC", "[", "s" >>) }

RECURSIVE PublicStatesOf(_)
PublicStatesOf(n) ==
    IF n = 0 THEN { << >> }
    ELSE PublicStatesOf(n - 1)
         \cup { Append(l, << o, t >>) :
                   l \in PublicStatesOf(n - 1),
                   o \in 0 .. MaxOffset, t \in PublicTokens }

PublicStates == PublicStatesOf(MaxEntries)

PublicTexts ==
    { << "h", "i" >>, << "h", "i", "C3", "A9" >> }

\* A caller has built AnsiString { stripped, ansi_states }; no line was
\* scanned.
InitPublic ==
    /\ pc = "parsed"
    /\ last_attr = None
    /\ entry_attr = None
    /\ last_seq = None
    /\ entry_seq = None
    /\ text = << >>
    /\ stripped \in PublicTexts
    /\ ansi_states \in PublicStates
    /\ it_text = 0
    /\ pk_ansi_states = 0
    /\ ch_idx = 0
    /\ as_range = None
    /\ yielded = << >>
    /\ steps = 0
    /\ printing = FALSE
    /\ win = << >>

NextPublic ==
    \/ Iter
    \/ NextBegin
    \/ LoopStep

SpecPublic == InitPublic /\ [][NextPublic]_vars

(***************************************************************************)
(* Vocabulary of the properties: what a line contains, read off the list   *)
(* of its matches, without the scan.                                       *)
(***************************************************************************)
ClearCodes == { << "ESC", "[", "K" >>, << "ESC", "[", "2", "J" >> }

\* parse_ansi has just returned: text is its argument, stripped and
\* ansi_states its result, entry_attr the last_attr it found.
Returned == pc = "parsed"

\* The escape sequences recognized in a line, left to right.
Codes(line) ==
    LET mats == FindIter(line)
    IN  [k \in 1 .. Len(mats) |-> Slice(line, mats[k][1], mats[k][2])]

\* The matches of a line that are not clear codes, left to right.
StyleMatches(line) ==
    SelectSeq(FindIter(line),
              LAMBDA m : Slice(line, m[1], m[2]) \notin ClearCodes)

\* The line begins with a recognized escape sequence.
StartsWithMatch(line) ==
    LET mats == FindIter(line)
    IN  mats # << >> /\ mats[1][1] = 0

\* The byte at offset off lies inside one of the matches mats.
InMatch(mats, off) ==
    \E k \in 1 .. Len(mats) : mats[k][1] <= off /\ off < mats[k][2]

\* The literal bytes of a line that lie before offset off, in order.
LiteralUpTo(line, off) ==
    LET mats == FindIter(line)
        offs == SelectSeq([i \in 1 .. off |-> i - 1],
                          LAMBDA o : ~InMatch(mats, o))
    IN  [k \in 1 .. Len(offs) |-> line[offs[k] + 1]]

\* The entries of a change list at offset i, in list order.
EntriesAt(states, i) == SelectSeq(states, LAMBDA e : e[1] = i)

\* The entries of a change list at an offset below n, in list order.
EntriesBelow(states, n) == SelectSeq(states, LAMBDA e : e[1] < n)

\* The runs of a sequence of items, concatenated in yield order.
RECURSIVE ConcatRuns(_)
ConcatRuns(items) ==
    IF items = << >> THEN << >>
    ELSE items[1].run \o ConcatRuns(Tail(items))

\* What is left of a traversal: characters not taken, entries not taken,
\* and the place in next().
Measure ==
    3 * (CharCount(stripped) - it_text)
    + (Len(ansi_states) - pk_ansi_states)
    + (IF pc = "loop" THEN 2 ELSE IF pc = "iter" THEN 1 ELSE 0)

(***************************************************************************)
(* Properties.                                                             *)
(***************************************************************************)
\* C1, as stated: when a traversal of iter() is over, the runs it yielded,
\* concatenated in yield order, are the whole change list ansi_states.
C1_RunsAreWholeList ==
    pc = "done" => ConcatRuns(yielded) = ansi_states

\* C1, amended: when a traversal of iter() is over, the runs it yielded,
\* concatenated in yield order, are exactly the entries of ansi_states whose
\* offset is below the number of characters of stripped, and these are a
\* prefix of ansi_states; the entries at offset = length of stripped are not
\* yielded.
C1_RunsAreEntriesBelowLength ==
    pc = "done" =>
        LET below == EntriesBelow(ansi_states, CharCount(stripped))
        IN  /\ ConcatRuns(yielded) = below
            /\ below = SubSeq(ansi_states, 1, Len(below))

\* C1 witness: a finished traversal that yielded the first entry with the
\* last character and left out the entry at offset = length of stripped.
C1_Witness ==
    /\ pc = "done"
    /\ Len(ansi_states) = 2
    /\ yielded # << >>
    /\ ConcatRuns(yielded) = << ansi_states[1] >>
    /\ yielded[Len(yielded)].run = << ansi_states[1] >>
    /\ ansi_states[2][1] = CharCount(stripped)

\* C2: when the last escape sequence the parser has recognized is a
\* non-clear code, the result of scanning a line with no recognized
\* sequence (any number of such lines later) is changes = [(0, T)], T the
\* token of that code.
C2_CarryOverPersists ==
    (/\ Returned
     /\ FindIter(text) = << >>
     /\ IsSome(last_seq)
     /\ Unwrap(last_seq) \notin ClearCodes)
    => ansi_states = << << 0, register_ansi(Unwrap(last_seq)) >> >>

\* C2 witness: an empty line scanned while the token of ESC[1m is active.
C2_Witness ==
    /\ pc = "parsed"
    /\ text = << >>
    /\ last_seq = Some(<< "ESC", "[", "1", "m" >>)
    /\ ansi_states = << << 0, register_ansi(<< "ESC", "[", "1", "m" >>) >> >>

\* C3: the change list is the entries of the line's non-clear sequences,
\* with (0, last_attr on entry) put in front if and only if last_attr was
\* set on entry and the line does not begin with a recognized sequence.
C3_LeadingStateRule ==
    Returned =>
        LET carry  == IsSome(entry_attr) /\ ~StartsWithMatch(text)
            lead   == IF carry THEN 1 ELSE 0
            styles == StyleMatches(text)
        IN  /\ Len(ansi_states) = lead + Len(styles)
            /\ carry => ansi_states[1] = << 0, Unwrap(entry_attr) >>
            /\ \A k \in 1 .. Len(styles) :
                   ansi_states[lead + k][2] =
                       register_ansi(Slice(text, styles[k][1], styles[k][2]))
            /\ (entry_attr = None /\ FindIter(text) = << >>)
                   => ansi_states = << >>

\* C3 witness: a token was active on entry, the line's first sequence comes
\* after some text, and the list begins with the carried-over entry.
C3_Witness ==
    /\ pc = "parsed"
    /\ IsSome(entry_attr)
    /\ FindIter(text) # << >>
    /\ ~StartsWithMatch(text)
    /\ Len(ansi_states) = 2
    /\ ansi_states[1] = << 0, Unwrap(entry_attr) >>
    /\ ansi_states[2][2] # Unwrap(entry_attr)

\* C4: a clear code puts no entry in the change list and, as the last
\* sequence of a line, leaves last_attr = None; the line scanned after it
\* gets no carry-over entry when it does not begin with a sequence.
C4_ClearResets ==
    Returned =>
        /\ \A i \in 1 .. Len(ansi_states) :
               \A c \in ClearCodes : ansi_states[i][2] # register_ansi(c)
        /\ LET codes == Codes(text)
           IN  (codes # << >> /\ codes[Len(codes)] \in ClearCodes)
                   => last_attr = None
        /\ (IsSome(entry_seq) /\ Unwrap(entry_seq) \in ClearCodes
                /\ ~StartsWithMatch(text))
               => Len(ansi_states) = Len(StyleMatches(text))

\* C4 witness: the line before ended its sequences with a clear code, this
\* line is text followed by a non-clear sequence, and its only entry is that
\* sequence's.
C4_Witness ==
    /\ pc = "parsed"
    /\ IsSome(entry_seq)
    /\ Unwrap(entry_seq) \in ClearCodes
    /\ ~StartsWithMatch(text)
    /\ Len(StyleMatches(text)) = 1
    /\ Len(ansi_states) = 1
    /\ ansi_states[1][1] > 0

\* C5: the offsets of ansi_states never decrease along the list.
C5_OffsetsMonotone ==
    \A i \in 1 .. Len(ansi_states) - 1 :
        ansi_states[i][1] <= ansi_states[i + 1][1]

\* C5 witness: a carried-over entry at offset 0 followed by two entries at
\* a later offset.
C5_Witness ==
    /\ pc = "parsed"
    /\ IsSome(entry_attr)
    /\ Len(ansi_states) = 3
    /\ ansi_states[1] = << 0, Unwrap(entry_attr) >>
    /\ ansi_states[2][1] > 0
    /\ ansi_states[3][1] = ansi_states[2][1]

\* C6: every offset of ansi_states is at most the number of characters of
\* stripped.
C6_OffsetsWithinStripped ==
    \A i \in 1 .. Len(ansi_states) :
        ansi_states[i][1] <= CharCount(stripped)

\* C6 witness: an entry at offset = length of stripped, after a two-byte
\* character.
C6_Witness ==
    /\ pc = "parsed"
    /\ ansi_states # << >>
    /\ CharCount(stripped) > 0
    /\ CharCount(stripped) < Len(stripped)
    /\ ansi_states[Len(ansi_states)][1] = CharCount(stripped)

\* C7: stripped is the input's literal bytes, all of them, once each and in
\* order; it is no longer than the input, in bytes and in characters, and is
\* what a parser with no active token returns.
C7_StrippedIsLiteralText ==
    Returned =>
        /\ stripped = LiteralUpTo(text, Len(text))
        /\ Len(stripped) <= Len(text)
        /\ CharCount(stripped) <= CharCount(text)
        /\ stripped = parse_ansi(None, text).stripped

\* C7 witness: a token was active on entry, and the line has text on both
\* sides of a recognized sequence.
C7_Witness ==
    /\ pc = "parsed"
    /\ IsSome(entry_attr)
    /\ text = << "h", "i", "ESC", "[", "1", "m", "C3", "A9" >>
    /\ Len(stripped) < Len(text)

\* C8: the entry of each non-clear sequence has as offset the number of
\* literal characters of the line before the sequence, and as token the
\* token of its code; the entries are in scan order.
C8_OffsetCountsCharacters ==
    Returned =>
        LET styles == StyleMatches(text)
            lead   == Len(ansi_states) - Len(styles)
        IN  /\ lead \in {0, 1}
            /\ \A k \in 1 .. Len(styles) :
                   ansi_states[lead + k] =
                       << CharCount(LiteralUpTo(text, styles[k][1])),
                          register_ansi(Slice(text, styles[k][1], styles[k][2])) >>

\* C8 witness: two adjacent sequences after a two-byte character: both
\* entries at offset 1, different tokens, in scan order.
C8_Witness ==
    /\ pc = "parsed"
    /\ text = << "C3", "A9", "ESC", "[", "1", "m", "ESC", "[", "s" >>
    /\ ansi_states = << << 1, register_ansi(<< "ESC", "[", "1", "m" >>) >>,
                        << 1, register_ansi(<< "ESC", "[", "s" >>) >> >>

\* C9: each item yielded pairs the k-th character of stripped with the
\* entries of ansi_states at offset k - 1, all of them, in list order, and
\* these lie next to each other in ansi_states.
C9_RunIsEntriesAtOffset ==
    \A k \in 1 .. Len(yielded) :
        /\ yielded[k].ch = Chars(stripped)[k]
        /\ yielded[k].run = EntriesAt(ansi_states, k - 1)
        /\ \E first \in 1 .. Len(ansi_states) + 1 :
               yielded[k].run =
                   SubSeq(ansi_states, first, first + Len(yielded[k].run) - 1)

\* C9 witness: two adjacent codes before "hi": 'h' with both entries, then
\* 'i' with none.
C9_Witness ==
    /\ pc = "done"
    /\ Len(yielded) = 2
    /\ yielded[1].ch = << "h" >>
    /\ yielded[1].run = ansi_states
    /\ Len(ansi_states) = 2
    /\ yielded[2] = [ch |-> << "i" >>, run |-> << >>]

\* C10: a traversal ends: each of its steps (a call of next(), a turn of
\* its loop) makes Measure, a natural number, smaller, so that the steps taken
\* and Measure together never exceed what Measure was when iter() returned;
\* the items yielded so far are the characters taken so far, in order; and
\* when next() has returned None there is one item per character of
\* stripped and no character is left, so that next() returns None again.
C10_TraversalTerminates ==
    pc \in {"iter", "loop", "done"} =>
        /\ Measure >= 0
        /\ steps + Measure <= 3 * CharCount(stripped) + Len(ansi_states) + 1
        /\ Len(yielded) = IF pc = "loop" THEN it_text - 1 ELSE it_text
        /\ \A k \in 1 .. Len(yielded) : yielded[k].ch = Chars(stripped)[k]
        /\ pc = "done" =>
               /\ Len(yielded) = CharCount(stripped)
               /\ it_text = Len(TextChars(stripped))

\* C10 witness: a finished traversal of a stripped text of three characters,
\* one of them of two bytes, with entries taken inside the loop.
C10_Witness ==
    /\ pc = "done"
    /\ Len(yielded) = 3
    /\ Len(stripped) = 4
    /\ pk_ansi_states >= 2

\* The calls print makes for the first n characters of an AnsiString: for
\* each character in order, attr_on for the entries at its offset, in list
\* order, then addch of the character.
RECURSIVE ExpectedCalls(_, _, _)
ExpectedCalls(states, chars, n) ==
    IF n = 0 THEN << >>
    ELSE ExpectedCalls(states, chars, n - 1)
         \o [i \in 1 .. Len(EntriesAt(states, n - 1)) |->
                << "attr_on", EntriesAt(states, n - 1)[i][2] >>]
         \o << << "addch", chars[n] >> >>

\* C11: in print, the calls made on the Window so far are, for each
\* character written, in order: attr_on for every entry at that character's
\* offset, in list order, then addch of the character; so no attribute of a
\* later offset is applied before an earlier character is written.
C11_AttrsBeforeChar ==
    printing =>
        win = ExpectedCalls(ansi_states, Chars(stripped), Len(yielded))

\* C11 witness: print has finished a text of three characters: an attribute
\* at offset 0, two characters, an attribute at offset 2, the last character.
C11_Witness ==
    /\ printing
    /\ pc = "done"
    /\ Len(win) = 5
    /\ win[1][1] = "attr_on"
    /\ win[2][1] = "addch"
    /\ win[3][1] = "addch"
    /\ win[4][1] = "attr_on"
    /\ win[4][2] # win[1][2]
    /\ win[5][1] = "addch"

\* C12: on the lists parse_ansi builds, whenever the loop of next() looks
\* at an entry not yet taken, the entry's offset is at least the index of
\* the current character: the branch that drops a stale entry is not taken.
C12_NoStaleEntry ==
    (pc = "loop" /\ pk_ansi_states < Len(ansi_states))
        => ansi_states[pk_ansi_states + 1][1] >= ch_idx

\* C12 witness: the loop, having taken an entry for an earlier character,
\* looks at an entry of a later offset and leaves it for later.
C12_Witness ==
    /\ pc = "loop"
    /\ pk_ansi_states >= 1
    /\ pk_ansi_states < Len(ansi_states)
    /\ ch_idx >= 1
    /\ ansi_states[pk_ansi_states + 1][1] > ch_idx

\* C13: for any change list, every entry of every run yielded is at the
\* offset of the run's character: an entry behind the character is dropped,
\* not put in the run.
C13_RunsHoldOnlyMatching ==
    \A k \in 1 .. Len(yielded) :
        \A i \in 1 .. Len(yielded[k].run) : yielded[k].run[i][1] = k - 1

\* C14: after parse_ansi returns, last_attr is what it was on entry when
\* the line has no recognized sequence; otherwise it is decided by the last
\* recognized sequence of the line alone: None for a clear code, the token of
\* the code for any other kind of sequence.
C14_LastAttrFromLastSequence ==
    Returned =>
        LET codes == Codes(text)
            final == codes[Len(codes)]
        IN  IF codes = << >> THEN last_attr = entry_attr
            ELSE IF final \in ClearCodes THEN last_attr = None
            ELSE last_attr = Some(register_ansi(final))

\* C14 witness: a token was active on entry; the line has an SGR code, then
\* a clear code, then a cursor move, whose token is last_attr.
C14_Witness ==
    /\ pc = "parsed"
    /\ IsSome(entry_attr)
    /\ Codes(text) = << << "ESC", "[", "1", "m" >>,
                        << "ESC", "[", "K" >>,
                        << "ESC", "[", "2", "A" >> >>
    /\ last_attr = Some(register_ansi(<< "ESC", "[", "2", "A" >>))

\* C15: what from_str returns is decided by its argument alone, whatever
\* the parser in use has scanned: stripped is the literal text, the change
\* list is the entries of the line's non-clear sequences and nothing before
\* them; for a text with no recognized sequence the list is empty and
\* has_attrs() is false.
C15_FromStrIsFresh ==
    pc = "from_str" =>
        LET styles == StyleMatches(text)
        IN  /\ stripped = LiteralUpTo(text, Len(text))
            /\ Len(ansi_states) = Len(styles)
            /\ \A k \in 1 .. Len(styles) :
                   ansi_states[k] =
                       << CharCount(LiteralUpTo(text, styles[k][1])),
                          register_ansi(Slice(text, styles[k][1], styles[k][2])) >>
            /\ FindIter(text) = << >> =>
                   (ansi_states = << >> /\ ~has_attrs(ansi_states))

\* C15 witness: the parser in use has an active token, and from_str of a
\* plain text returns no entry.
C15_Witness ==
    /\ pc = "from_str"
    /\ IsSome(last_attr)
    /\ text = << "h", "i" >>
    /\ stripped = << "h", "i" >>
    /\ ansi_states = << >>
    /\ ~has_attrs(ansi_states)

=============================================================================
